---------------------------- MODULE Spec2Model ----------------------------
(***************************************************************************)
(* Model of the row-store / columnar-store bridge of pg_duckdb:            *)
(*   - the offset-cache tuple reader (HeapTupleFetchNextDatumValue and     *)
(*     its driver InsertTupleIntoChunk) of src/src/quack_types.cpp,        *)
(*   - the scalar converters, the type mapping table and the decimal       *)
(*     codec of the same file,                                             *)
(*   - the filter evaluator of src/src/pgduckdb_filter.cpp.                *)
(* Attribute numbers and byte offsets are 0-based as in the source; the    *)
(* sequences that hold them are 1-based, so attribute a is element a + 1.  *)
(***************************************************************************)
EXTENDS Integers, Sequences, FiniteSets, TLC

VARIABLES
    tupleDesc,    \* the attribute descriptor sequence: attlen, attalign per column
    attcacheoff,  \* tupleDesc->attrs[a].attcacheoff, -1 while unset
    tuple,        \* per decoder: the heap tuple being decoded
    readState,    \* per decoder: HeapTuplePageReadState (m_slow, m_nvalid, m_offset)
    frame,        \* per decoder: InsertTupleIntoChunk's position, loop index and output
    loc,          \* per decoder: locals of the running HeapTupleFetchNextDatumValue call
    slotWrites,   \* history: every (attribute, offset) ever stored into a cache slot
    conv,         \* one value on its way row store -> columnar vector -> row store
    filt,         \* one evaluation of a filter tree on a row-store value
    dec           \* one decoding of a numeric by the decimal codec

readerVars == <<tupleDesc, attcacheoff, tuple, readState, frame, loc, slotWrites>>

vars == <<tupleDesc, attcacheoff, tuple, readState, frame, loc, slotWrites,
          conv, filt, dec>>

----------------------------------------------------------------------------
(* Bounds of the model.                                                    *)

\* number of columns of the descriptor sequence in the sequential reader
NAtts == 3
\* number of columns of the descriptor sequence shared by two interleaved decoders
ParAtts == 2

----------------------------------------------------------------------------
(* Attribute descriptors and the host's layout rules.                      *)

Min(a, b) == IF a < b THEN a ELSE b

\* the value of a component that a specification does not exercise
Unused == [pc |-> "unused"]

\* pg_attribute rows of the column kinds the reader meets: "char", int4,
\* text (varlena) and cstring (zero terminated).
CharAtt == [attlen |-> 1, attalign |-> "c"]
Int4Att == [attlen |-> 4, attalign |-> "i"]
TextAtt == [attlen |-> -1, attalign |-> "i"]
CStringAtt == [attlen |-> -2, attalign |-> "c"]

AttKinds == {CharAtt, Int4Att, TextAtt, CStringAtt}

AlignBytes(attalign) ==
    CASE attalign = "c" -> 1
      [] attalign = "s" -> 2
      [] attalign = "i" -> 4
      [] attalign = "d" -> 8

\* TYPEALIGN: round cur_offset up to the next multiple of the alignment
att_align_nominal(cur_offset, attalign) ==
    ((cur_offset + AlignBytes(attalign) - 1) \div AlignBytes(attalign))
        * AlignBytes(attalign)

\* the byte of the row's data area at offset off (tp + off)
ByteAt(t, off) == t.data[off + 1]

\* a varlena that starts with a non-zero byte is a short-header datum and is
\* not aligned; a zero byte is padding (or an aligned 4-byte header)
att_align_pointer(cur_offset, attalign, attlen, byte) ==
    IF attlen = -1 /\ byte # 0
    THEN cur_offset
    ELSE att_align_nominal(cur_offset, attalign)

\* VARSIZE_ANY on a little-endian host: 1-byte header (low bit set) holds the
\* length in bits 1..7, a 4-byte header holds it in bits 2..31
VarSizeAny(t, off) ==
    IF ByteAt(t, off) % 2 = 1
    THEN (ByteAt(t, off) \div 2) % 128
    ELSE (ByteAt(t, off) + 256 * ByteAt(t, off + 1)
            + 65536 * ByteAt(t, off + 2)) \div 4

RECURSIVE StrLen(_, _)
StrLen(t, off) == IF ByteAt(t, off) = 0 THEN 0 ELSE 1 + StrLen(t, off + 1)

att_addlength_pointer(cur_offset, attlen, t) ==
    IF attlen > 0 THEN cur_offset + attlen
    ELSE IF attlen = -1 THEN cur_offset + VarSizeAny(t, cur_offset)
    ELSE cur_offset + StrLen(t, cur_offset) + 1

----------------------------------------------------------------------------
(* Heap tuples as the host lays them out: a null bitmap and a data area in  *)
(* which every present attribute is stored at its alignment, except a       *)
(* short-header varlena, which is stored unaligned.                         *)

RECURSIVE Zeros(_)
Zeros(n) == IF n <= 0 THEN <<>> ELSE <<0>> \o Zeros(n - 1)

RECURSIVE Fill(_, _)
Fill(n, b) == IF n <= 0 THEN <<>> ELSE <<b>> \o Fill(n - 1, b)

NullVal == [null |-> TRUE, short |-> FALSE, n |-> 0]

\* the values a column of descriptor att can hold in a row: null, or a datum
\* with n payload bytes (a varlena with a 1-byte or a 4-byte header)
ValuesFor(att) ==
    {NullVal} \cup
    IF att.attlen > 0 THEN {[null |-> FALSE, short |-> FALSE, n |-> att.attlen]}
    ELSE IF att.attlen = -1
    THEN {[null |-> FALSE, short |-> TRUE, n |-> 1],
          [null |-> FALSE, short |-> TRUE, n |-> 3],
          [null |-> FALSE, short |-> FALSE, n |-> 1]}
    ELSE {[null |-> FALSE, short |-> FALSE, n |-> 0],
          [null |-> FALSE, short |-> FALSE, n |-> 1]}

\* the stored bytes of one non-null value
DatumBytes(att, v) ==
    IF att.attlen > 0 THEN <<7>> \o Zeros(att.attlen - 1)
    ELSE IF att.attlen = -1
    THEN IF v.short
         THEN <<2 * (v.n + 1) + 1>> \o Fill(v.n, 97)
         ELSE <<(4 * (v.n + 4)) % 256, ((4 * (v.n + 4)) \div 256) % 256, 0, 0>>
                  \o Fill(v.n, 97)
    ELSE Fill(v.n, 97) \o <<0>>

\* where the host stores a value when the data area is cur bytes long
StoreOffset(att, v, cur) ==
    IF att.attlen = -1 /\ v.short THEN cur
    ELSE att_align_nominal(cur, att.attalign)

\* the data area and the offset of every attribute (-1 for a null one), built
\* from attribute a on, given the bytes and offsets of the attributes before it
RECURSIVE FillFrom(_, _, _, _, _)
FillFrom(desc, vals, a, data, offs) ==
    IF a >= Len(vals) THEN [data |-> data, offs |-> offs]
    ELSE IF vals[a + 1].null
    THEN FillFrom(desc, vals, a + 1, data, Append(offs, -1))
    ELSE LET at == StoreOffset(desc[a + 1], vals[a + 1], Len(data))
         IN  FillFrom(desc, vals, a + 1,
                      data \o Zeros(at - Len(data)) \o DatumBytes(desc[a + 1], vals[a + 1]),
                      Append(offs, at))

\* a heap tuple with Len(vals) physical attributes; offs is not part of the
\* tuple, it records where each attribute really is
FormTuple(desc, vals) ==
    LET f == FillFrom(desc, vals, 0, <<>>, <<>>)
    IN  [natts |-> Len(vals),
         hasnulls |-> \E a \in 1..Len(vals) : vals[a].null,
         isnull |-> [a \in 1..Len(vals) |-> vals[a].null],
         data |-> f.data,
         offs |-> f.offs]

\* every row of k physical attributes a table of this descriptor can hold
RowValues(desc, k) ==
    {vals \in [1..k -> UNION {ValuesFor(desc[a]) : a \in 1..Len(desc)}] :
        \A a \in 1..k : vals[a] \in ValuesFor(desc[a])}

NoTuple == [natts |-> 0, hasnulls |-> FALSE, isnull |-> <<>>, data |-> <<>>, offs |-> <<>>]

HeapTupleHasNulls(t) == t.hasnulls
HeapTupleHeaderGetNatts(t) == t.natts
att_isnull(attnum, t) == t.isnull[attnum + 1]

----------------------------------------------------------------------------
(* HeapTupleFetchNextDatumValue.  A call is a sequence of steps over its    *)
(* locals; every step reads or writes at most one cached-offset slot.       *)

\* Datum 0: the value returned when nothing was fetched
NoDatum == -1

FreshReadState == [m_slow |-> FALSE, m_nvalid |-> 0, m_offset |-> 0]

\* locals of a decoder outside a call; reads, writes and fetched are history
\* kept for the row: the slots read, the slot stores (with the slow flag they
\* were made under) and the (attribute, offset) fetches
IdleLocals ==
    [pc |-> "ret", natts |-> 0, attnum |-> 0, off |-> 0, slow |-> FALSE,
     isNull |-> FALSE, value |-> NoDatum,
     reads |-> {}, writes |-> {}, fetched |-> {}]

\* line 309: the cached offset is used only outside slow mode
UseCachedOffset(slow, cacheoff) == ~slow /\ cacheoff >= 0

\* line 313: a varlena's offset is cached only outside slow mode and only
\* when the running offset is already aligned
CanCacheVarlena(slow, off, attalign) ==
    ~slow /\ off = att_align_nominal(off, attalign)

\* a reader that caches a fixed-width attribute's offset in slow mode too
CanCacheFixedAlways(slow) == TRUE

\* line 322: a fixed-width attribute's offset is cached only outside slow mode
CanCacheFixed(slow) == ~slow

\* lines 331-333: a variable-width or negative-length attribute forces slow mode
SlowAfterAttribute(slow, attlen) == slow \/ attlen <= 0

\* a reader that forgets slow mode between two calls
SavedSlowDropped(slow) == FALSE

\* lines 339-343: the slow flag saved in the cursor
SavedSlow(slow) == slow

\* lines 272-295: entry of a call for natts attributes; isNull is the caller's flag
EnterCall(t, rs, natts, isNull, hist) ==
    [pc |-> "for",
     natts |-> Min(HeapTupleHeaderGetNatts(t), natts),
     attnum |-> rs.m_nvalid,
     off |-> IF rs.m_nvalid = 0 THEN 0 ELSE rs.m_offset,
     slow |-> IF rs.m_nvalid = 0 THEN FALSE ELSE rs.m_slow,
     isNull |-> isNull,
     value |-> NoDatum,
     reads |-> hist.reads, writes |-> hist.writes, fetched |-> hist.fetched]

\* lines 327-333: fetch attribute l.attnum at offset off, advance past it
FetchAndAdvance(l, off, slow, t, desc) ==
    [l EXCEPT !.pc = "for",
              !.value = off,
              !.fetched = @ \cup {<<l.attnum, off>>},
              !.off = att_addlength_pointer(off, desc[l.attnum + 1].attlen, t),
              !.slow = SlowAfterAttribute(slow, desc[l.attnum + 1].attlen),
              !.attnum = @ + 1]

\* lines 297-309: loop test, null test and the test of the cached offset
StepFor(l, cache, t, desc) ==
    IF l.attnum >= l.natts
    THEN [l |-> [l EXCEPT !.pc = "save"], cache |-> cache]
    ELSE IF HeapTupleHasNulls(t) /\ att_isnull(l.attnum, t)
    THEN [l |-> [l EXCEPT !.value = NoDatum, !.isNull = TRUE, !.slow = TRUE,
                          !.attnum = @ + 1],
          cache |-> cache]
    ELSE IF l.slow
    THEN [l |-> [l EXCEPT !.isNull = FALSE, !.pc = "place"], cache |-> cache]
    ELSE [l |-> [l EXCEPT !.isNull = FALSE,
                          !.reads = @ \cup {l.attnum},
                          !.pc = IF UseCachedOffset(l.slow, cache[l.attnum + 1])
                                 THEN "hit" ELSE "place"],
          cache |-> cache]

\* line 310: take the cached offset
StepHit(l, cache, t, desc) ==
    [l |-> FetchAndAdvance([l EXCEPT !.reads = @ \cup {l.attnum}],
                           cache[l.attnum + 1], l.slow, t, desc),
     cache |-> cache]

\* lines 311-325: compute the offset, and cache it when allowed
StepPlace(l, cache, t, desc) ==
    LET att == desc[l.attnum + 1]
        store(off) == [l EXCEPT !.writes = @ \cup
                          {[att |-> l.attnum, off |-> off, slow |-> l.slow]}]
    IN  IF att.attlen = -1
        THEN IF CanCacheVarlena(l.slow, l.off, att.attalign)
             THEN [l |-> FetchAndAdvance(store(l.off), l.off, l.slow, t, desc),
                   cache |-> [cache EXCEPT ![l.attnum + 1] = l.off]]
             ELSE [l |-> FetchAndAdvance(l,
                             att_align_pointer(l.off, att.attalign, -1, ByteAt(t, l.off)),
                             TRUE, t, desc),
                   cache |-> cache]
        ELSE LET off == att_align_nominal(l.off, att.attalign)
             IN  IF CanCacheFixed(l.slow)
                 THEN [l |-> FetchAndAdvance(store(off), off, l.slow, t, desc),
                       cache |-> [cache EXCEPT ![l.attnum + 1] = off]]
                 ELSE [l |-> FetchAndAdvance(l, off, l.slow, t, desc),
                       cache |-> cache]

\* one step of the call
Step(l, cache, t, desc) ==
    CASE l.pc = "for" -> StepFor(l, cache, t, desc)
      [] l.pc = "hit" -> StepHit(l, cache, t, desc)
      [] l.pc = "place" -> StepPlace(l, cache, t, desc)

\* lines 336-343: the cursor saved when the loop ends
SaveReadState(l) ==
    [m_nvalid |-> l.attnum, m_offset |-> l.off, m_slow |-> SavedSlow(l.slow)]

\* the whole call, run without interruption up to the end of its loop
RECURSIVE RunCall(_, _, _, _)
RunCall(l, cache, t, desc) ==
    IF l.pc = "save" THEN [l |-> l, cache |-> cache]
    ELSE LET r == Step(l, cache, t, desc) IN RunCall(r.l, r.cache, t, desc)

HeapTupleFetchNextDatumValue(desc, cache, t, rs, natts, isNull, hist) ==
    LET r == RunCall(EnterCall(t, rs, natts, isNull, hist), cache, t, desc)
    IN  [l |-> [r.l EXCEPT !.pc = "ret"], cache |-> r.cache,
         readState |-> SaveReadState(r.l)]

----------------------------------------------------------------------------
(* InsertTupleIntoChunk: one fresh cursor per row, one call per column.     *)

Decoders == DOMAIN frame

IdleFrame == [pc |-> "idle", i |-> 0, out |-> <<>>]

\* lines 355-360: an attribute signalled null clears the validity bit, any
\* other is converted from the returned datum
ChunkEntry(isNull, value) ==
    IF isNull THEN [valid |-> FALSE, value |-> NoDatum]
    ELSE [valid |-> TRUE, value |-> value]

\* lines 349-350: a row is handed over and its cursor is created
BeginRow(p, t) ==
    /\ frame[p].pc = "idle"
    /\ tuple' = [tuple EXCEPT ![p] = t]
    /\ readState' = [readState EXCEPT ![p] = FreshReadState]
    /\ frame' = [frame EXCEPT ![p] = [pc |-> "loop", i |-> 0, out |-> <<>>]]
    /\ loc' = [loc EXCEPT ![p] = IdleLocals]
    /\ UNCHANGED <<tupleDesc, attcacheoff, slotWrites>>
    /\ UNCHANGED <<conv, filt, dec>>

\* any row of the table, also one written before columns were added
BeginTuple(p) ==
    /\ frame[p].pc = "idle"
    /\ \E k \in 0..Len(tupleDesc) :
          \E vals \in RowValues(tupleDesc, k) :
              BeginRow(p, FormTuple(tupleDesc, vals))

\* the state of the loop after the call for column i returned
AfterCall(f, l) ==
    [pc |-> IF f.i + 1 < Len(tupleDesc) THEN "loop" ELSE "done",
     i |-> f.i + 1,
     out |-> Append(f.out, ChunkEntry(l.isNull, l.value))]

\* lines 351-361: one iteration of the loop, the call run as a whole
FetchNextDatum(p) ==
    /\ frame[p].pc = "loop"
    /\ \E r \in {HeapTupleFetchNextDatumValue(tupleDesc, attcacheoff, tuple[p],
                    readState[p], frame[p].i + 1, FALSE, loc[p])} :
           /\ attcacheoff' = r.cache
           /\ readState' = [readState EXCEPT ![p] = r.readState]
           /\ loc' = [loc EXCEPT ![p] = r.l]
           /\ frame' = [frame EXCEPT ![p] = AfterCall(frame[p], r.l)]
           /\ slotWrites' = slotWrites \cup {<<w.att, w.off>> : w \in r.l.writes}
    /\ UNCHANGED <<tupleDesc, tuple>>
    /\ UNCHANGED <<conv, filt, dec>>

\* line 362: the row is done, its cursor and locals are gone
EndTuple(p) ==
    /\ frame[p].pc = "done"
    /\ tuple' = [tuple EXCEPT ![p] = NoTuple]
    /\ readState' = [readState EXCEPT ![p] = FreshReadState]
    /\ frame' = [frame EXCEPT ![p] = IdleFrame]
    /\ loc' = [loc EXCEPT ![p] = IdleLocals]
    /\ UNCHANGED <<tupleDesc, attcacheoff, slotWrites>>
    /\ UNCHANGED <<conv, filt, dec>>

NoOffsets(n) == [a \in 1..n |-> -1]

Init ==
    /\ tupleDesc \in [1..NAtts -> AttKinds]
    /\ attcacheoff = NoOffsets(NAtts)
    /\ tuple = [p \in {1} |-> NoTuple]
    /\ readState = [p \in {1} |-> FreshReadState]
    /\ frame = [p \in {1} |-> IdleFrame]
    /\ loc = [p \in {1} |-> IdleLocals]
    /\ slotWrites = {}
    /\ conv = Unused /\ filt = Unused /\ dec = Unused

Next ==
    \/ \E p \in Decoders : BeginTuple(p)
    \/ \E p \in Decoders : FetchNextDatum(p)
    \/ \E p \in Decoders : EndTuple(p)

Spec == Init /\ [][Next]_vars

----------------------------------------------------------------------------
(* Two decoders on one descriptor sequence, each with its own tuple and     *)
(* cursor, interleaved between any two accesses to a cached-offset slot.    *)

\* a decoder's own state: loop frame f, call locals l, cursor rs; with the
\* shared slots
Thread(f, l, rs, cache) == [f |-> f, l |-> l, rs |-> rs, cache |-> cache]

\* the next statement of a decoder: the loop enters the call for column i
\* (lines 353-354, 272-295), the call takes a step (lines 297-334), or it
\* saves the cursor and returns to the loop (lines 336-345, 355-360)
SmallStep(th, t, desc) ==
    IF th.f.pc = "loop"
    THEN Thread([th.f EXCEPT !.pc = "call"],
                EnterCall(t, th.rs, th.f.i + 1, FALSE, th.l), th.rs, th.cache)
    ELSE IF th.l.pc = "save"
    THEN Thread(AfterCall(th.f, th.l), [th.l EXCEPT !.pc = "ret"],
                SaveReadState(th.l), th.cache)
    ELSE LET r == Step(th.l, th.cache, t, desc)
         IN  Thread(th.f, r.l, th.rs, r.cache)

\* whether the next statement reads or writes a cached-offset slot
TouchesSlot(th, t, desc) ==
    /\ th.f.pc = "call"
    /\ \/ /\ th.l.pc = "for"
          /\ th.l.attnum < th.l.natts
          /\ ~(HeapTupleHasNulls(t) /\ att_isnull(th.l.attnum, t))
          /\ ~th.l.slow
       \/ th.l.pc = "hit"
       \/ /\ th.l.pc = "place"
          /\ IF desc[th.l.attnum + 1].attlen = -1
             THEN CanCacheVarlena(th.l.slow, th.l.off, desc[th.l.attnum + 1].attalign)
             ELSE CanCacheFixed(th.l.slow)

\* the statements that touch only the decoder's own state, run up to the
\* next slot access or to the end of the row
RECURSIVE RunLocal(_, _, _)
RunLocal(th, t, desc) ==
    IF th.f.pc = "done" \/ TouchesSlot(th, t, desc) THEN th
    ELSE RunLocal(SmallStep(th, t, desc), t, desc)

\* a decoder runs to its next slot access and performs it
DecodeStep(p) ==
    /\ frame[p].pc \in {"loop", "call"}
    /\ \E th \in {RunLocal(Thread(frame[p], loc[p], readState[p], attcacheoff),
                           tuple[p], tupleDesc)} :
         \E r \in {IF th.f.pc = "done" THEN th
                   ELSE SmallStep(th, tuple[p], tupleDesc)} :
           /\ frame' = [frame EXCEPT ![p] = r.f]
           /\ loc' = [loc EXCEPT ![p] = r.l]
           /\ readState' = [readState EXCEPT ![p] = r.rs]
           /\ attcacheoff' = r.cache
           /\ slotWrites' = slotWrites \cup {<<w.att, w.off>> : w \in r.l.writes}
    /\ UNCHANGED <<tupleDesc, tuple>>
    /\ UNCHANGED <<conv, filt, dec>>

\* the rows of the interleaved decoders: all columns present, short varlenas
\* of one payload byte
ParRowValues(desc) ==
    {vals \in RowValues(desc, Len(desc)) :
        \A a \in 1..Len(desc) : vals[a].short => vals[a].n = 1}

BeginTuplePar(p) ==
    /\ frame[p].pc = "idle"
    /\ \E vals \in ParRowValues(tupleDesc) :
          BeginRow(p, FormTuple(tupleDesc, vals))

ParKinds == {CharAtt, Int4Att, TextAtt}

InitPar ==
    /\ tupleDesc \in [1..ParAtts -> ParKinds]
    /\ attcacheoff = NoOffsets(ParAtts)
    /\ tuple = [p \in {1, 2} |-> NoTuple]
    /\ readState = [p \in {1, 2} |-> FreshReadState]
    /\ frame = [p \in {1, 2} |-> IdleFrame]
    /\ loc = [p \in {1, 2} |-> IdleLocals]
    /\ slotWrites = {}
    /\ conv = Unused /\ filt = Unused /\ dec = Unused

NextPar ==
    \/ \E p \in Decoders : BeginTuplePar(p)
    \/ \E p \in Decoders : DecodeStep(p)
    \/ \E p \in Decoders : EndTuple(p)

SpecPar == InitPar /\ [][NextPar]_vars

----------------------------------------------------------------------------
(* Properties of the tuple reader.                                          *)

\* the decoders that are between two calls of a row, or past its last call
Decoding(p) == frame[p].pc \in {"loop", "done"}

\* the reference reader: the offset of attribute target found by walking the
\* row from offset 0, with no cache and no saved cursor (-1 for a null one)
RECURSIVE RefWalk(_, _, _, _, _)
RefWalk(t, desc, a, off, target) ==
    IF att_isnull(a, t)
    THEN IF a = target THEN -1 ELSE RefWalk(t, desc, a + 1, off, target)
    ELSE LET at == IF desc[a + 1].attlen = -1
                   THEN att_align_pointer(off, desc[a + 1].attalign, -1, ByteAt(t, off))
                   ELSE att_align_nominal(off, desc[a + 1].attalign)
         IN  IF a = target THEN at
             ELSE RefWalk(t, desc, a + 1,
                          att_addlength_pointer(at, desc[a + 1].attlen, t), target)

\* attributes the tuple does not physically have are null
RefIsNull(t, a) == a >= t.natts \/ att_isnull(a, t)

RefOffset(t, desc, a) == RefWalk(t, desc, 0, 0, a)

\* C1: when more attributes are requested than the tuple has (K), every
\* request for an attribute K..N-1 signals null to the caller and fetches
\* nothing from the row, and the cursor's attribute index never exceeds K.
C1_TruncationSignalsNull ==
    \A p \in Decoders : Decoding(p) =>
        /\ \A a \in 0..(Len(frame[p].out) - 1) :
              a >= tuple[p].natts => ~frame[p].out[a + 1].valid
        /\ \A f \in loc[p].fetched : f[1] < tuple[p].natts
        /\ readState[p].m_nvalid <= tuple[p].natts

\* the part of C1 the reader does keep: no fetch past the last physical
\* attribute, and the cursor stops at K
TruncationReadsInBounds ==
    \A p \in Decoders : Decoding(p) =>
        /\ \A f \in loc[p].fetched : f[1] < tuple[p].natts
        /\ readState[p].m_nvalid <= tuple[p].natts

\* the attributes already visited in p's row that are null or of
\* variable width / negative length
Breakers(p) ==
    {k \in 0..(readState[p].m_nvalid - 1) :
        att_isnull(k, tuple[p]) \/ tupleDesc[k + 1].attlen <= 0}

SetMin(S) == CHOOSE x \in S : \A y \in S : x <= y

\* C2: once an attribute k of the row was null or variable-width, the slow
\* flag saved in the cursor is true for the rest of the row, no slot of an
\* attribute j > k was read or written during the row, and every slot store
\* of the row was made with slow false.
C2_SlowIsStickyAndGatesCache ==
    \A p \in Decoders : Decoding(p) =>
        /\ \A w \in loc[p].writes : ~w.slow
        /\ Breakers(p) # {} =>
              /\ readState[p].m_slow
              /\ \A j \in loc[p].reads \cup {w.att : w \in loc[p].writes} :
                    j <= SetMin(Breakers(p))

\* a row [int32, null, text] was decoded to its end: slot 0 was stored and
\* slot 2 was left unset
C2_Witness ==
    /\ Decoding(1) /\ frame[1].pc = "done"
    /\ tupleDesc[1] = Int4Att /\ tupleDesc[3] = TextAtt
    /\ tuple[1].natts = 3
    /\ ~tuple[1].isnull[1] /\ tuple[1].isnull[2] /\ ~tuple[1].isnull[3]
    /\ readState[1].m_slow
    /\ attcacheoff[1] = 0 /\ attcacheoff[3] = -1
    /\ 0 \in {w.att : w \in loc[1].writes}

\* C3: the call for N returns the null flag of attribute N-1 and fetches a
\* non-null attribute N-1 at the offset the reference reader computes.
C3_CachedEqualsReference ==
    \A p \in Decoders : Decoding(p) =>
        \A a \in 0..(Len(frame[p].out) - 1) :
            /\ frame[p].out[a + 1].valid = ~RefIsNull(tuple[p], a)
            /\ frame[p].out[a + 1].valid =>
                  frame[p].out[a + 1].value = RefOffset(tuple[p], tupleDesc, a)

\* C3 restricted to the attributes the tuple physically has
CachedEqualsReferenceWithinTuple ==
    \A p \in Decoders : Decoding(p) =>
        \A a \in 0..(Min(Len(frame[p].out), tuple[p].natts) - 1) :
            /\ frame[p].out[a + 1].valid = ~RefIsNull(tuple[p], a)
            /\ frame[p].out[a + 1].valid =>
                  /\ frame[p].out[a + 1].value = RefOffset(tuple[p], tupleDesc, a)
                  /\ frame[p].out[a + 1].value = tuple[p].offs[a + 1]

\* the offset of attribute a in a row whose attributes before a are all
\* present and of fixed width: a function of the descriptor sequence alone
RECURSIVE CanonOff(_, _)
CanonOff(desc, a) ==
    IF a = 0 THEN att_align_nominal(0, desc[1].attalign)
    ELSE att_align_nominal(CanonOff(desc, a - 1) + desc[a].attlen,
                           desc[a + 1].attalign)

\* C10: every store to attribute a's slot stores the offset fixed by the
\* widths and alignments of attributes 0..a, whichever row triggers it; a
\* slot that was set keeps its value (every value ever stored is the slot's
\* value now); and every fetch of every decoder is at the attribute's true
\* offset in the decoder's own tuple.
C10_CachedOffsetsStable ==
    /\ \A w \in slotWrites :
          /\ \A b \in 1..w[1] : tupleDesc[b].attlen > 0
          /\ w[2] = CanonOff(tupleDesc, w[1])
          /\ attcacheoff[w[1] + 1] = w[2]
    /\ \A a \in 1..Len(attcacheoff) :
          attcacheoff[a] >= 0 => <<a - 1, attcacheoff[a]>> \in slotWrites
    /\ \A p \in Decoders : \A f \in loc[p].fetched :
          f[2] = tuple[p].offs[f[1] + 1]

\* both decoders are inside a call, on rows of different null patterns, and
\* decoder 1 fetched an attribute through a slot that decoder 2 stored
\* during its current row
C10_Witness ==
    /\ frame[1].pc = "call" /\ frame[2].pc = "call"
    /\ tuple[1].isnull # tuple[2].isnull
    /\ \E f \in loc[1].fetched :
          /\ f[1] \in loc[1].reads
          /\ f[1] \notin {w.att : w \in loc[1].writes}
          /\ f[1] \in {w.att : w \in loc[2].writes}

----------------------------------------------------------------------------
(* Fixed-width integers.  A word is a little-endian sequence of 16-bit      *)
(* limbs: 4 limbs are a Datum or an int64_t, 2 limbs an int32_t.  All       *)
(* arithmetic is modulo 2^(16 * limbs), as on the two's-complement host.    *)

Limb == 256 * 256

RECURSIVE WAddC(_, _, _)
WAddC(a, b, c) ==
    IF a = <<>> THEN <<>>
    ELSE <<(Head(a) + Head(b) + c) % Limb>>
            \o WAddC(Tail(a), Tail(b), (Head(a) + Head(b) + c) \div Limb)

WAdd(a, b) == WAddC(a, b, 0)
WNot(a) == [i \in 1..Len(a) |-> Limb - 1 - a[i]]
WSub(a, b) == WAddC(a, WNot(b), 1)

WIsNeg(a) == a[Len(a)] >= Limb \div 2

\* conversion to a wider type: of a signed value, of an unsigned value
WSignExtend(a, n) == a \o Fill(n - Len(a), IF WIsNeg(a) THEN Limb - 1 ELSE 0)
WZeroExtend(a, n) == a \o Zeros(n - Len(a))
\* conversion to a narrower type keeps the low limbs
WTrunc(a, n) == SubSeq(a, 1, n)

\* the 32-bit word of an integer in -2^31 .. 2^31 - 1, and back
Int32Word(v) == <<v % Limb, (v \div Limb) % Limb>>
Int32Val(w) ==
    IF WIsNeg(w) THEN (w[2] - Limb) * Limb + w[1] ELSE w[2] * Limb + w[1]

\* unsigned comparison of two words of the same length
RECURSIVE WLessU(_, _)
WLessU(a, b) ==
    IF a = <<>> THEN FALSE
    ELSE IF a[Len(a)] # b[Len(b)] THEN a[Len(a)] < b[Len(b)]
    ELSE WLessU(SubSeq(a, 1, Len(a) - 1), SubSeq(b, 1, Len(b) - 1))

\* Datum <-> the C integer types (DatumGetInt32, Int32GetDatum, ...): a
\* narrow signed value is stored sign-extended, and read back by truncation
DatumOfInt32(v) == WSignExtend(Int32Word(v), 4)
DatumGetInt32(d) == Int32Val(WTrunc(d, 2))
DatumGetInt16(d) == IF d[1] >= Limb \div 2 THEN d[1] - Limb ELSE d[1]
DatumGetChar(d) == IF d[1] % 256 >= 128 THEN (d[1] % 256) - 256 ELSE d[1] % 256
DatumGetBool(d) == d # <<0, 0, 0, 0>>

----------------------------------------------------------------------------
(* The decimal codec: ConvertDecimal<T, OP> on a NumericVar                 *)
(* [ndigits, weight, sign, dscale, digits], digits in base NBASE.           *)

\* bounds of the numerics decoded: declared scale, stored digit groups,
\* weight, and zero groups implied between the point and the first group
MaxDscale == 6
MaxNDigits == 2
MaxWeight == 1
MaxLeadingZeroGroups == 1
\* the width in bits of the fixed-width destination type T
TBits == 16

NBASE == 10000
DEC_DIGITS == 4

RECURSIVE Pow(_, _)
Pow(b, n) == IF n <= 0 THEN 1 ELSE b * Pow(b, n - 1)

\* conversion of an int result to the signed TBits-bit type T
WrapT(x) == ((x + Pow(2, TBits - 1)) % Pow(2, TBits)) - Pow(2, TBits - 1)

\* C++ integer division truncates toward zero
TruncDiv(a, b) ==
    IF (a >= 0) = (b > 0)
    THEN (IF a >= 0 THEN a ELSE -a) \div (IF b > 0 THEN b ELSE -b)
    ELSE -((IF a >= 0 THEN a ELSE -a) \div (IF b > 0 THEN b ELSE -b))

\* a value stored into a variable of type T: narrowed for the integer
\* policy, kept for double
StoreT(pol, x) == IF pol = "Integer" THEN WrapT(x) ELSE x

\* T /= T: truncating for the integer policy; for double the quotient, which
\* is a whole number whenever 10^correction divides the final digit group
DivT(pol, a, b) == IF pol = "Integer" THEN WrapT(TruncDiv(a, b)) ELSE a \div b

\* the destination policy (quack/types/decimal.hpp): the power-of-ten helper
GetPowerOfTen(pol, n) == Pow(10, n)

\* the destination policy's finalization: the integer policy returns the
\* scaled integer, the double policy divides it by 10^dscale (kept here as
\* the pair numerator, denominator)
Finalize(pol, numeric, result) ==
    IF pol = "Integer" THEN result
    ELSE [num |-> result, den |-> Pow(10, numeric.dscale)]

NumericIsNegative(numeric) == numeric.sign = "NUMERIC_NEG"

\* lines 161-168: the digit groups before the decimal point, groups past the
\* digit array counting as zero
RECURSIVE IntegralDigits(_, _, _, _)
IntegralDigits(numeric, pol, digit_index, integral_part) ==
    IF digit_index > numeric.weight THEN integral_part
    ELSE IntegralDigits(numeric, pol, digit_index + 1,
            IF digit_index < numeric.ndigits
            THEN StoreT(pol, StoreT(pol, integral_part * NBASE)
                                + numeric.digits[digit_index + 1])
            ELSE StoreT(pol, integral_part * NBASE))

\* lines 160-170
IntegralPart(numeric, pol) ==
    IF numeric.weight >= 0
    THEN StoreT(pol, IntegralDigits(numeric, pol, 1, numeric.digits[1])
                        * GetPowerOfTen(pol, numeric.dscale))
    ELSE 0

\* a codec that forgets the weight when it counts the fractional groups
FractionalPowerIgnoringWeight(numeric) == (numeric.ndigits - 1) * DEC_DIGITS

\* line 179: the decimal digits the fractional groups stand for
FractionalPower(numeric) ==
    (numeric.ndigits - numeric.weight - 1) * DEC_DIGITS

\* line 180
FractionalPowerCorrection(numeric) == FractionalPower(numeric) - numeric.dscale

\* lines 190-202: the last group, compensated for the difference between
\* the digits accumulated and the scale
LastGroup(numeric, pol, i, fractional_part) ==
    LET corr == FractionalPowerCorrection(numeric)
        compensation == StoreT(pol, GetPowerOfTen(pol, IF corr >= 0 THEN corr ELSE -corr))
        final_base == IF corr >= 0 THEN DivT(pol, NBASE, compensation)
                      ELSE StoreT(pol, NBASE * compensation)
        final_digit == IF corr >= 0 THEN DivT(pol, numeric.digits[i + 1], compensation)
                       ELSE StoreT(pol, numeric.digits[i + 1] * compensation)
    IN  StoreT(pol, StoreT(pol, fractional_part * final_base) + final_digit)

\* lines 183-204
RECURSIVE FractionalDigits(_, _, _, _)
FractionalDigits(numeric, pol, i, fractional_part) ==
    IF i >= numeric.ndigits THEN fractional_part
    ELSE IF i + 1 < numeric.ndigits
    THEN FractionalDigits(numeric, pol, i + 1,
            StoreT(pol, StoreT(pol, fractional_part * NBASE) + numeric.digits[i + 1]))
    ELSE LastGroup(numeric, pol, i, fractional_part)

\* lines 178-205
FractionalPart(numeric, pol) ==
    IF numeric.ndigits > numeric.weight + 1
    THEN FractionalDigits(numeric, pol,
            IF numeric.weight + 1 > 0 THEN numeric.weight + 1 ELSE 0, 0)
    ELSE 0

\* lines 151-210
ConvertDecimal(numeric, pol) ==
    IF numeric.ndigits = 0
    THEN (IF pol = "Integer" THEN 0 ELSE [num |-> 0, den |-> 1])
    ELSE LET base_res == Finalize(pol, numeric,
                            StoreT(pol, IntegralPart(numeric, pol)
                                            + FractionalPart(numeric, pol)))
         IN  IF ~NumericIsNegative(numeric) THEN base_res
             ELSE IF pol = "Integer" THEN StoreT(pol, -base_res)
             ELSE [base_res EXCEPT !.num = -@]

\* the reader's state in the specifications that do not run it
ReaderUnused ==
    /\ tupleDesc = <<>> /\ attcacheoff = <<>> /\ tuple = <<>>
    /\ readState = <<>> /\ frame = <<>> /\ loc = <<>> /\ slotWrites = {}

\* digit groups the inputs are made of
DigitVals == {0, 1, 3, 20, 100, 1230, 2767, 5000, 9999}

\* the decimal zeros that end a four-digit group
TrailingZeros(d) ==
    IF d % 1000 = 0 THEN 3 ELSE IF d % 100 = 0 THEN 2 ELSE IF d % 10 = 0 THEN 1 ELSE 0

\* the groups after the decimal point, counting the implied zero groups
GroupsAfterPoint(n) == n.ndigits - 1 - n.weight

\* leading and trailing zero groups are suppressed, and the declared scale
\* covers every significant fractional digit
WellFormedNumeric(n) ==
    IF n.ndigits = 0 THEN n.weight = 0 /\ n.sign = "NUMERIC_POS"
    ELSE /\ n.digits[1] # 0 /\ n.digits[n.ndigits] # 0
         /\ GroupsAfterPoint(n) > 0 =>
               n.dscale >= DEC_DIGITS * GroupsAfterPoint(n)
                               - TrailingZeros(n.digits[n.ndigits])

\* the power of ten digit group i carries in value * 10^dscale
GroupExponent(n, i) == DEC_DIGITS * (n.weight - i) + n.dscale

GroupTerm(n, i) ==
    IF GroupExponent(n, i) >= 0
    THEN n.digits[i + 1] * Pow(10, GroupExponent(n, i))
    ELSE n.digits[i + 1] \div Pow(10, -GroupExponent(n, i))

RECURSIVE SumTerms(_, _)
SumTerms(n, i) == IF i >= n.ndigits THEN 0 ELSE GroupTerm(n, i) + SumTerms(n, i + 1)

\* |value| * 10^dscale, by positional notation
ScaledMagnitude(n) == SumTerms(n, 0)

TMax == Pow(2, TBits - 1) - 1

\* the scaled value fits the destination type T
FitsT(n) ==
    /\ \A i \in 0..(n.ndigits - 1) :
          n.digits[i + 1] # 0 => GroupExponent(n, i) <= DEC_DIGITS
    /\ ScaledMagnitude(n) <= TMax

Numerics ==
    {n \in UNION {[ndigits : {k}, weight : (-1 - MaxLeadingZeroGroups)..MaxWeight,
                   sign : {"NUMERIC_POS", "NUMERIC_NEG"}, dscale : 0..MaxDscale,
                   digits : [1..k -> DigitVals]] : k \in 0..MaxNDigits} :
        WellFormedNumeric(n)}

InitDecimal ==
    /\ ReaderUnused
    /\ conv = Unused /\ filt = Unused
    /\ \E n \in Numerics :
          /\ FitsT(n)
          /\ dec = [pc |-> "numeric", numeric |-> n, result |-> 0]

\* ConvertDecimal<T, DecimalConversionInteger> applied to the numeric
DecodeNumeric ==
    /\ dec.pc = "numeric"
    /\ dec' = [dec EXCEPT !.pc = "decoded",
                          !.result = ConvertDecimal(dec.numeric, "Integer")]
    /\ UNCHANGED <<readerVars, conv, filt>>

NextDecimal == DecodeNumeric

SpecDecimal == InitDecimal /\ [][NextDecimal]_vars

\* C6: for every well-formed numeric whose scaled value fits T, the integer
\* policy returns exactly value * 10^dscale, the sign applied to the decoded
\* magnitude; zero digit groups give 0.
C6_DecimalExact ==
    dec.pc = "decoded" =>
        /\ dec.result = (IF NumericIsNegative(dec.numeric) THEN -1 ELSE 1)
                            * ScaledMagnitude(dec.numeric)
        /\ dec.numeric.ndigits = 0 => dec.result = 0

\* a negative pure fraction whose trailing zero groups are suppressed
\* (groups * 4 < dscale) was decoded
C6_Witness ==
    /\ dec.pc = "decoded"
    /\ dec.numeric.weight < 0
    /\ NumericIsNegative(dec.numeric)
    /\ DEC_DIGITS * GroupsAfterPoint(dec.numeric) < dec.numeric.dscale
    /\ dec.result < 0

----------------------------------------------------------------------------
(* The type mapping table and the value converter.  A Datum is a 4-limb     *)
(* word; the Datum of a by-reference type is the address of an object.      *)

\* the length word of a varlena, subtracted from a numeric type modifier
VARHDRSZ == 4

\* DuckDB dates start at 1970-01-01, PostgreSQL dates at 2000-01-01
QUACK_DUCK_DATE_OFFSET == 10957

\* 86400000000 microseconds, as an int64_t
USECS_PER_DAY == <<24576, 7639, 20, 0>>

\* a word times a small non-negative int, modulo 2^(16 * limbs)
RECURSIVE WMulC(_, _, _)
WMulC(a, k, c) ==
    IF a = <<>> THEN <<>>
    ELSE <<(Head(a) * k + c) % Limb>>
            \o WMulC(Tail(a), k, (Head(a) * k + c) \div Limb)

QUACK_DUCK_TIMESTAMP_OFFSET == WMulC(USECS_PER_DAY, 10957, 0)

ZeroDatum == <<0, 0, 0, 0>>
BoolGetDatum(b) == IF b THEN <<1, 0, 0, 0>> ELSE ZeroDatum

\* a logical type of the columnar store: its id, its extra type info, and
\* the width and scale of a DECIMAL
LogicalType(id) == [id |-> id, aux |-> "none", width |-> 0, scale |-> 0]
NumericAsDoubleType == [LogicalType("DOUBLE") EXCEPT !.aux = "NumericAsDouble"]
DecimalType(width, scale) ==
    [LogicalType("DECIMAL") EXCEPT !.width = width, !.scale = scale]

\* (x >> 16) & 0xffff and ((x & 0x7ff) ^ 1024) - 1024 on the int typmod - 4
numeric_typmod_precision(typmod) == ((typmod - VARHDRSZ) \div 65536) % 65536

numeric_typmod_scale(typmod) ==
    LET low == (typmod - VARHDRSZ) % 2048
    IN  (IF low >= 1024 THEN low - 1024 ELSE low + 1024) - 1024

NumericFallbackIgnoringScale(typmod, precision, scale) ==
    typmod = -1 \/ precision < 0 \/ precision > 38

\* line 119: the numeric column cannot be a DECIMAL
NumericAsDoubleFallback(typmod, precision, scale) ==
    typmod = -1 \/ precision < 0 \/ scale < 0 \/ precision > 38

Mapped(t) == [err |-> FALSE, type |-> t]
UnsupportedType == [err |-> TRUE, type |-> LogicalType("INVALID")]

ConvertPostgresToDuckColumnType(type, typmod) ==
    CASE type = "BOOLOID" -> Mapped(LogicalType("BOOLEAN"))
      [] type = "CHAROID" -> Mapped(LogicalType("TINYINT"))
      [] type = "INT2OID" -> Mapped(LogicalType("SMALLINT"))
      [] type = "INT4OID" -> Mapped(LogicalType("INTEGER"))
      [] type = "INT8OID" -> Mapped(LogicalType("BIGINT"))
      [] type \in {"BPCHAROID", "TEXTOID", "VARCHAROID"} ->
            Mapped(LogicalType("VARCHAR"))
      [] type = "DATEOID" -> Mapped(LogicalType("DATE"))
      [] type = "TIMESTAMPOID" -> Mapped(LogicalType("TIMESTAMP"))
      [] type = "FLOAT8OID" -> Mapped(LogicalType("DOUBLE"))
      [] type = "NUMERICOID" ->
            LET precision == numeric_typmod_precision(typmod)
                scale == numeric_typmod_scale(typmod)
            IN  IF NumericAsDoubleFallback(typmod, precision, scale)
                THEN Mapped(NumericAsDoubleType)
                ELSE Mapped(DecimalType(precision, scale))
      [] OTHER -> UnsupportedType

\* the numerics stored in the row store, by address
NumericAddr1 == <<8192, 0, 0, 0>>
NumericAddr2 == <<8208, 0, 0, 0>>
NumericMemory ==
    (NumericAddr1 :> [ndigits |-> 2, weight |-> 0, sign |-> "NUMERIC_NEG",
                      dscale |-> 2, digits |-> <<12, 3400>>])
    @@ (NumericAddr2 :> [ndigits |-> 0, weight |-> 0, sign |-> "NUMERIC_POS",
                         dscale |-> 0, digits |-> <<>>])

\* DatumGetNumeric and FromNumeric: the NumericVar of the pointed-to numeric
FromNumeric(value) == NumericMemory[value]

\* the text objects the row store holds at first: a varlena with a 1-byte or
\* a 4-byte header and its payload bytes
TextAddr1 == <<4096, 0, 0, 0>>
TextAddr2 == <<4112, 0, 0, 0>>
TextAddr3 == <<4128, 0, 0, 0>>
PallocAddr == <<12288, 0, 0, 0>>
TextMemory ==
    (TextAddr1 :> [header |-> "1B", data |-> <<97, 98>>])
    @@ (TextAddr2 :> [header |-> "4B", data |-> <<>>])
    @@ (TextAddr3 :> [header |-> "4B", data |-> <<120, 0, 255>>])

VARDATA_ANY(heap, value) == heap[value].data
VARSIZE_ANY_EXHDR(heap, value) == Len(heap[value].data)

\* the string_t copied into the vector's string heap
AppendString(heap, value) ==
    SubSeq(VARDATA_ANY(heap, value), 1, VARSIZE_ANY_EXHDR(heap, value))

\* static_cast<int32_t>(value + QUACK_DUCK_DATE_OFFSET), the sum being
\* unsigned 64-bit
DuckDate(value) ==
    Int32Val(WTrunc(WAdd(value, DatumOfInt32(QUACK_DUCK_DATE_OFFSET)), 2))

\* static_cast<int64_t>(value + QUACK_DUCK_TIMESTAMP_OFFSET)
DuckTimestamp(value) == WAdd(value, QUACK_DUCK_TIMESTAMP_OFFSET)

Converted(cell) == [err |-> FALSE, cell |-> cell]
UnsupportedValue == [err |-> TRUE, cell |-> <<>>]

ConvertPostgresToDuckValue(value, type, heap) ==
    CASE type.id = "BOOLEAN" -> Converted(DatumGetBool(value))
      [] type.id = "TINYINT" -> Converted(DatumGetChar(value))
      [] type.id = "SMALLINT" -> Converted(DatumGetInt16(value))
      [] type.id = "INTEGER" -> Converted(DatumGetInt32(value))
      [] type.id = "BIGINT" -> Converted(value)
      [] type.id = "VARCHAR" -> Converted(AppendString(heap, value))
      [] type.id = "DATE" -> Converted(DuckDate(value))
      [] type.id = "TIMESTAMP" -> Converted(DuckTimestamp(value))
      [] type.id = "DOUBLE" ->
            IF type.aux = "NumericAsDouble"
            THEN Converted(ConvertDecimal(FromNumeric(value), "Double"))
            ELSE Converted([bits |-> value])
      [] OTHER -> UnsupportedValue

\* the int32_t of days - offset when it does not overflow, else its wrapped
\* value
Int32Minus(a, b) == Int32Val(WSub(Int32Word(a), Int32Word(b)))

PostgresDateAdded(days) ==
    {DatumOfInt32(Int32Val(WAdd(Int32Word(days),
                                Int32Word(QUACK_DUCK_DATE_OFFSET))))}

\* line 56: date.days - QUACK_DUCK_DATE_OFFSET converted to a Datum.  The
\* subtraction is signed; when it overflows, a build either wraps it to 32
\* bits and sign-extends, or subtracts in a 64-bit register.
PostgresDate(days) ==
    {DatumOfInt32(Int32Minus(days, QUACK_DUCK_DATE_OFFSET)),
     WSub(DatumOfInt32(days), DatumOfInt32(QUACK_DUCK_DATE_OFFSET))}

\* line 61: timestamp.micros - QUACK_DUCK_TIMESTAMP_OFFSET in 64 bits, the
\* dtime_t holding the microsecond count of the vector cell
PostgresTimestamp(micros) == WSub(micros, QUACK_DUCK_TIMESTAMP_OFFSET)

\* palloc0: an address no object lives at
Palloc(heap) == CHOOSE a \in {PallocAddr} : a \notin DOMAIN heap

Stored(datum, heap, attbyval) ==
    [err |-> FALSE, datum |-> datum, heap |-> heap, attbyval |-> attbyval]

\* the outcomes of storing the columnar value into column col of the slot
ConvertDuckToPostgresValue(oid, value, heap, attbyval) ==
    CASE oid = "BOOLOID" -> {Stored(BoolGetDatum(value), heap, attbyval)}
      [] oid \in {"CHAROID", "INT2OID", "INT4OID"} ->
            {Stored(DatumOfInt32(value), heap, attbyval)}
      [] oid = "INT8OID" -> {Stored(value, heap, attbyval)}
      [] oid \in {"BPCHAROID", "TEXTOID", "VARCHAROID"} ->
            {Stored(Palloc(heap),
                    (Palloc(heap) :> [header |-> "4B", data |-> value]) @@ heap,
                    attbyval)}
      [] oid = "DATEOID" -> {Stored(d, heap, attbyval) : d \in PostgresDate(value)}
      [] oid = "TIMESTAMPOID" ->
            {Stored(PostgresTimestamp(value), heap, attbyval)}
      [] oid = "FLOAT8OID" -> {Stored(value.bits, heap, TRUE)}
      [] OTHER -> {[err |-> TRUE, datum |-> ZeroDatum, heap |-> heap,
                    attbyval |-> attbyval]}

\* the columns converted: the row-store types, the type modifiers of numeric
\* columns with the precision and scale they were declared with, and Datums
ConvOids ==
    {"BOOLOID", "CHAROID", "INT2OID", "INT4OID", "INT8OID", "BPCHAROID",
     "TEXTOID", "VARCHAROID", "DATEOID", "TIMESTAMPOID", "FLOAT8OID",
     "NUMERICOID", "FLOAT4OID"}

Undeclared == [precision |-> 0, scale |-> 0]

\* the type modifier the row store makes of numeric(precision, scale)
MakeNumericTypmod(d) == (d.precision * 65536 + (d.scale % 2048)) + VARHDRSZ

Declarations ==
    [precision : {1, 10, 38, 39, 1000}, scale : {-1000, -2, 0, 2, 38, 1000}]

Int32Min == -2147483647 - 1
Int64Min == <<0, 0, 0, 32768>>
Int64Max == <<65535, 65535, 65535, 32767>>
MinusOne == <<65535, 65535, 65535, 65535>>

DatumsFor(oid) ==
    CASE oid = "BOOLOID" -> {ZeroDatum, <<1, 0, 0, 0>>}
      [] oid = "CHAROID" -> {DatumOfInt32(v) : v \in {-128, -1, 0, 65, 127}}
      [] oid = "INT2OID" -> {DatumOfInt32(v) : v \in {-32768, -1, 0, 5, 32767}}
      [] oid = "INT4OID" ->
            {DatumOfInt32(v) : v \in {Int32Min, -1, 0, 5, 2147483647}}
      [] oid = "INT8OID" ->
            {Int64Min, MinusOne, ZeroDatum, <<5, 0, 0, 0>>, Int64Max}
      [] oid \in {"BPCHAROID", "TEXTOID", "VARCHAROID"} -> DOMAIN TextMemory
      [] oid = "DATEOID" ->
            {DatumOfInt32(v) : v \in {Int32Min, -10957, -1, 0, 8000,
                                      2147472690, 2147472691, 2147483647}}
      [] oid = "TIMESTAMPOID" ->
            {Int64Min, MinusOne, ZeroDatum, USECS_PER_DAY,
             WSub(ZeroDatum, QUACK_DUCK_TIMESTAMP_OFFSET),
             WSub(Int64Max, QUACK_DUCK_TIMESTAMP_OFFSET),
             WAdd(WSub(Int64Max, QUACK_DUCK_TIMESTAMP_OFFSET), <<1, 0, 0, 0>>),
             Int64Max}
      [] oid = "FLOAT8OID" ->
            {ZeroDatum, <<0, 0, 0, 16368>>, <<0, 0, 0, 49136>>, NumericAddr1}
      [] oid = "NUMERICOID" -> DOMAIN NumericMemory
      [] OTHER -> {ZeroDatum, <<0, 16256, 0, 0>>}

\* pg_type.typbyval on a 64-bit host
TypByVal(oid) == oid \notin {"BPCHAROID", "TEXTOID", "VARCHAROID", "NUMERICOID"}

ConvStart(oid, typmod, declared, value) ==
    [pc |-> "start", oid |-> oid, typmod |-> typmod, declared |-> declared,
     value |-> value, heap |-> TextMemory, attbyval |-> TypByVal(oid),
     type |-> LogicalType("INVALID"), cell |-> <<>>, out |-> ZeroDatum,
     failed |-> "none"]

InitConv ==
    /\ ReaderUnused
    /\ filt = Unused /\ dec = Unused
    /\ \E oid \in ConvOids : \E value \in DatumsFor(oid) :
          \/ conv = ConvStart(oid, -1, Undeclared, value)
          \/ /\ oid = "NUMERICOID"
             /\ \E d \in Declarations :
                   conv = ConvStart(oid, MakeNumericTypmod(d), d, value)

\* the scan maps the column's type to the type of its vector
MapColumnType ==
    /\ conv.pc = "start"
    /\ \E r \in {ConvertPostgresToDuckColumnType(conv.oid, conv.typmod)} :
          conv' = IF r.err
                  THEN [conv EXCEPT !.pc = "error",
                                    !.failed = "ConvertPostgresToDuckColumnType"]
                  ELSE [conv EXCEPT !.pc = "typed", !.type = r.type]
    /\ UNCHANGED <<readerVars, filt, dec>>

\* rowToColumn: the Datum is appended to the vector
RowToColumn ==
    /\ conv.pc = "typed"
    /\ \E r \in {ConvertPostgresToDuckValue(conv.value, conv.type, conv.heap)} :
          conv' = IF r.err
                  THEN [conv EXCEPT !.pc = "error",
                                    !.failed = "ConvertPostgresToDuckValue"]
                  ELSE [conv EXCEPT !.pc = "columnar", !.cell = r.cell]
    /\ UNCHANGED <<readerVars, filt, dec>>

\* columnToRow: the vector's value is stored into the slot
ColumnToRow ==
    /\ conv.pc = "columnar"
    /\ \E r \in ConvertDuckToPostgresValue(conv.oid, conv.cell, conv.heap,
                                           conv.attbyval) :
          conv' = IF r.err
                  THEN [conv EXCEPT !.pc = "error",
                                    !.failed = "ConvertDuckToPostgresValue"]
                  ELSE [conv EXCEPT !.pc = "row", !.out = r.datum,
                                    !.heap = r.heap, !.attbyval = r.attbyval]
    /\ UNCHANGED <<readerVars, filt, dec>>

NextConv == MapColumnType \/ RowToColumn \/ ColumnToRow

SpecConv == InitConv /\ [][NextConv]_vars

\* the value of the column's type that a Datum stands for
ValueOfDatum(oid, heap, d) ==
    CASE oid = "BOOLOID" -> <<DatumGetBool(d)>>
      [] oid = "CHAROID" -> <<DatumGetChar(d)>>
      [] oid = "INT2OID" -> <<DatumGetInt16(d)>>
      [] oid \in {"INT4OID", "DATEOID"} -> <<DatumGetInt32(d)>>
      [] oid \in {"BPCHAROID", "TEXTOID", "VARCHAROID"} -> heap[d].data
      [] OTHER -> d

RoundTripOids == ConvOids \ {"FLOAT4OID"}

\* the column is one the type mapping table accepts; a numeric column is
\* one declared with a precision and scale a DECIMAL can hold
AcceptedColumn ==
    /\ conv.oid \in RoundTripOids
    /\ conv.oid = "NUMERICOID" =>
          /\ conv.typmod # -1
          /\ conv.declared.precision <= 38
          /\ conv.declared.scale \in 0..conv.declared.precision

RoundTripYieldsOriginal ==
    conv.pc = "row" =>
        ValueOfDatum(conv.oid, conv.heap, conv.out)
            = ValueOfDatum(conv.oid, conv.heap, conv.value)

\* C4: for every column the type mapping table accepts, rowToColumn and then
\* columnToRow complete without an unsupported-type error and yield the
\* original value.
C4_RoundTripEverySupportedType ==
    (conv.pc # "unused" /\ AcceptedColumn) =>
        conv.pc # "error" /\ RoundTripYieldsOriginal

\* the round trip of every accepted column that is not numeric
RoundTripExceptNumeric ==
    (conv.pc # "unused" /\ conv.oid \in RoundTripOids \ {"NUMERICOID"}) =>
        conv.pc # "error" /\ RoundTripYieldsOriginal

\* the day count d + 10957 as a 32-bit integer
ShiftedDay(d) ==
    IF d <= 2147483647 - QUACK_DUCK_DATE_OFFSET
    THEN d + QUACK_DUCK_DATE_OFFSET
    ELSE Int32Min + (d - (2147483647 - QUACK_DUCK_DATE_OFFSET) - 1)

\* C5: a day count d and a microsecond count t are shifted by 10957 days,
\* resp. 10957 * 86400000000 microseconds, once on the way to the vector and
\* back once on the way to the slot, modulo 2^32 resp. 2^64, and the round
\* trip yields d resp. t.
C5_EpochRoundTrip ==
    /\ (conv.pc # "unused" /\ conv.oid \in {"DATEOID", "TIMESTAMPOID"}) =>
          conv.pc # "error"
    /\ (conv.pc \in {"columnar", "row"} /\ conv.oid = "DATEOID") =>
          /\ conv.cell = ShiftedDay(DatumGetInt32(conv.value))
          /\ conv.pc = "row" =>
                DatumGetInt32(conv.out) = DatumGetInt32(conv.value)
    /\ (conv.pc \in {"columnar", "row"} /\ conv.oid = "TIMESTAMPOID") =>
          /\ WSub(conv.cell, <<57344, 15159, 23809, 3>>) = conv.value
          /\ conv.value = ZeroDatum => conv.cell = <<57344, 15159, 23809, 3>>
          /\ conv.pc = "row" => conv.out = conv.value

\* a day count whose shift wrapped the 32-bit integer went to the vector and
\* came back
C5_Witness ==
    /\ conv.pc = "row"
    /\ conv.oid = "DATEOID"
    /\ DatumGetInt32(conv.value) > 0
    /\ conv.cell < 0

\* the numeric column's mapping and the decoding of a double vector's cell
NumericMapping(fallback) ==
    /\ (conv.pc \in {"typed", "columnar"} /\ conv.oid = "NUMERICOID") =>
          IF fallback
          THEN conv.type = NumericAsDoubleType
          ELSE conv.type = DecimalType(numeric_typmod_precision(conv.typmod),
                                       numeric_typmod_scale(conv.typmod))
    /\ (conv.pc \in {"typed", "columnar"} /\ conv.oid = "FLOAT8OID") =>
          conv.type = LogicalType("DOUBLE")
    /\ (conv.pc = "columnar" /\ conv.type.id = "DOUBLE") =>
          IF conv.type.aux = "NumericAsDouble"
          THEN conv.cell = ConvertDecimal(FromNumeric(conv.value), "Double")
          ELSE conv.cell = [bits |-> conv.value]

\* C9, as stated: a numeric column maps to double with the marker whenever
\* the type modifier is -1 or the decoded precision exceeds 38, otherwise to
\* DECIMAL(precision, scale); float8 maps to double without the marker; a
\* double cell is decimal-decoded iff the marker is present.
C9_NumericFallback ==
    NumericMapping(conv.typmod = -1
                    \/ numeric_typmod_precision(conv.typmod) > 38)

\* C9, amended: the fallback is also taken when the decoded scale is
\* negative; a DECIMAL has the precision and the scale the column was
\* declared with.
C9_NumericFallbackAmended ==
    /\ NumericMapping(conv.typmod = -1
                       \/ numeric_typmod_precision(conv.typmod) > 38
                       \/ numeric_typmod_scale(conv.typmod) < 0)
    /\ (conv.pc \in {"typed", "columnar"} /\ conv.type.id = "DECIMAL") =>
          /\ conv.type.width = conv.declared.precision
          /\ conv.type.scale = conv.declared.scale

\* a numeric declared with a negative scale was decoded into a double cell
C9_Witness ==
    /\ conv.pc = "columnar"
    /\ conv.oid = "NUMERICOID"
    /\ conv.typmod # -1
    /\ conv.declared.precision <= 38
    /\ conv.declared.scale < 0
    /\ conv.type.aux = "NumericAsDouble"

----------------------------------------------------------------------------
(* The filter evaluator.  The operands of a comparison are numbers          *)
(* [neg, mag]: a sign and a 64-bit magnitude word.  The constant of a       *)
(* filter is the 8 bytes of its duckdb::Value, as a word.                   *)

\* bound of the filter trees evaluated: their number of nodes
MaxNodes == 4

\* the epoch offsets of pgduckdb_types.hpp
PGDUCKDB_DUCK_DATE_OFFSET == QUACK_DUCK_DATE_OFFSET
PGDUCKDB_DUCK_TIMESTAMP_OFFSET == QUACK_DUCK_TIMESTAMP_OFFSET

NatWord(n) == <<n % Limb, n \div Limb, 0, 0>>

\* the number a signed integer of Len(w) limbs stands for
SignedNumber(w) ==
    IF WIsNeg(w)
    THEN [neg |-> TRUE, mag |-> WZeroExtend(WSub(Zeros(Len(w)), w), 4)]
    ELSE [neg |-> FALSE, mag |-> WZeroExtend(w, 4)]

UnsignedNumber(w) == [neg |-> FALSE, mag |-> WZeroExtend(w, 4)]

Scale2(m, e) == IF e >= 0 THEN m * Pow(2, e) ELSE m \div Pow(2, -e)

\* the value of an IEEE 754 double and float from sign, exponent and
\* mantissa; of the mantissa of a double its top 20 bits.  The doubles and
\* floats compared are whole numbers with the other mantissa bits zero.
Float8Value(w) ==
    LET E == (w[4] % 32768) \div 16
        M == (w[4] % 16) * Limb + w[3]
    IN  [neg |-> w[4] >= 32768,
         mag |-> NatWord(IF E = 0 THEN 0 ELSE Scale2(1048576 + M, E - 1043))]

Float4Value(w) ==
    LET E == (w[2] % 32768) \div 128
        M == (w[2] % 128) * Limb + w[1]
    IN  [neg |-> w[2] >= 32768,
         mag |-> NatWord(IF E = 0 THEN 0 ELSE Scale2(8388608 + M, E - 150))]

NumEq(a, b) == a.mag = b.mag /\ (a.neg = b.neg \/ a.mag = ZeroDatum)

NumLess(a, b) ==
    IF NumEq(a, b) THEN FALSE
    ELSE IF a.neg # b.neg THEN a.neg
    ELSE IF a.neg THEN WLessU(b.mag, a.mag)
    ELSE WLessU(a.mag, b.mag)

\* duckdb::Equals, LessThan, LessThanEquals, GreaterThan, GreaterThanEquals
Operation(OP, a, b) ==
    CASE OP = "COMPARE_EQUAL" -> NumEq(a, b)
      [] OP = "COMPARE_LESSTHAN" -> NumLess(a, b)
      [] OP = "COMPARE_LESSTHANOREQUALTO" -> NumLess(a, b) \/ NumEq(a, b)
      [] OP = "COMPARE_GREATERTHAN" -> NumLess(b, a)
      [] OP = "COMPARE_GREATERTHANOREQUALTO" -> NumLess(b, a) \/ NumEq(a, b)

\* (T)value: the Datum, an unsigned 64-bit integer, converted to T.  The
\* conversion to float and double is of the integer's value, which is exact
\* for the Datums compared.
CastTo(T, value) ==
    CASE T = "bool" -> UnsignedNumber(<<IF value # ZeroDatum THEN 1 ELSE 0>>)
      [] T = "uint8_t" -> UnsignedNumber(<<value[1] % 256>>)
      [] T = "int16_t" -> SignedNumber(WTrunc(value, 1))
      [] T = "int32_t" -> SignedNumber(WTrunc(value, 2))
      [] T = "int64_t" -> SignedNumber(value)
      [] T \in {"float", "double"} -> UnsignedNumber(value)

\* constant.GetValueUnsafe<T>(): the member of type T of the value's union
GetValueUnsafe(T, constant) ==
    CASE T = "bool" -> UnsignedNumber(<<IF constant[1] % 256 # 0 THEN 1 ELSE 0>>)
      [] T = "uint8_t" -> UnsignedNumber(<<constant[1] % 256>>)
      [] T = "int16_t" -> SignedNumber(WTrunc(constant, 1))
      [] T = "int32_t" -> SignedNumber(WTrunc(constant, 2))
      [] T = "int64_t" -> SignedNumber(constant)
      [] T = "float" -> Float4Value(constant)
      [] T = "double" -> Float8Value(constant)

TemplatedFilterOperation(T, OP, value, constant) ==
    Operation(OP, CastTo(T, value), GetValueUnsafe(T, constant))

Verdict(b) == [err |-> FALSE, val |-> b]
FilterError == [err |-> TRUE, val |-> FALSE]

FilterOperationSwitch(OP, value, constant, type_oid) ==
    CASE type_oid = "BOOLOID" ->
            Verdict(TemplatedFilterOperation("bool", OP, value, constant))
      [] type_oid = "CHAROID" ->
            Verdict(TemplatedFilterOperation("uint8_t", OP, value, constant))
      [] type_oid = "INT2OID" ->
            Verdict(TemplatedFilterOperation("int16_t", OP, value, constant))
      [] type_oid = "INT4OID" ->
            Verdict(TemplatedFilterOperation("int32_t", OP, value, constant))
      [] type_oid = "INT8OID" ->
            Verdict(TemplatedFilterOperation("int64_t", OP, value, constant))
      [] type_oid = "FLOAT4OID" ->
            Verdict(TemplatedFilterOperation("float", OP, value, constant))
      [] type_oid = "FLOAT8OID" ->
            Verdict(TemplatedFilterOperation("double", OP, value, constant))
      [] type_oid = "DATEOID" ->
            LET date_datum ==
                    WSignExtend(WTrunc(WAdd(value,
                        DatumOfInt32(PGDUCKDB_DUCK_DATE_OFFSET)), 2), 4)
            IN  Verdict(TemplatedFilterOperation("int32_t", OP, date_datum,
                                                 constant))
      [] type_oid = "TIMESTAMPOID" ->
            LET timestamp_datum == WAdd(value, PGDUCKDB_DUCK_TIMESTAMP_OFFSET)
            IN  Verdict(TemplatedFilterOperation("int64_t", OP, timestamp_datum,
                                                 constant))
      [] OTHER -> FilterError

ComparisonTypes ==
    {"COMPARE_EQUAL", "COMPARE_LESSTHAN", "COMPARE_LESSTHANOREQUALTO",
     "COMPARE_GREATERTHAN", "COMPARE_GREATERTHANOREQUALTO"}

AndAssignLast(value_filter_result, child) == child

\* value_filter_result &= child
AndAssign(value_filter_result, child) == value_filter_result /\ child

\* a filter node: a conjunction has children, a comparison an operator and a
\* constant
ConjunctionAndFilter(child_filters) ==
    [filter_type |-> "CONJUNCTION_AND", child_filters |-> child_filters,
     comparison_type |-> "none", constant |-> ZeroDatum]
ConstantFilter(comparison_type, constant) ==
    [filter_type |-> "CONSTANT_COMPARISON", child_filters |-> <<>>,
     comparison_type |-> comparison_type, constant |-> constant]
NullFilter(filter_type) ==
    [filter_type |-> filter_type, child_filters |-> <<>>,
     comparison_type |-> "none", constant |-> ZeroDatum]

\* ApplyValueFilter, and its loop over the children of a conjunction from
\* child i on; an error raised in a child ends the evaluation
RECURSIVE ApplyValueFilter(_, _, _, _), ApplyChildren(_, _, _, _, _, _)
ApplyChildren(child_filters, i, value_filter_result, value, is_null, type_oid) ==
    IF i > Len(child_filters) THEN Verdict(value_filter_result)
    ELSE LET child == ApplyValueFilter(child_filters[i], value, is_null, type_oid)
         IN  IF child.err THEN FilterError
             ELSE ApplyChildren(child_filters, i + 1,
                                AndAssign(value_filter_result, child.val),
                                value, is_null, type_oid)

ApplyValueFilter(filter, value, is_null, type_oid) ==
    CASE filter.filter_type = "CONJUNCTION_AND" ->
            ApplyChildren(filter.child_filters, 1, TRUE, value, is_null, type_oid)
      [] filter.filter_type = "CONSTANT_COMPARISON" ->
            IF filter.comparison_type \in ComparisonTypes
            THEN FilterOperationSwitch(filter.comparison_type, value,
                                       filter.constant, type_oid)
            ELSE FilterError
      [] filter.filter_type = "IS_NOT_NULL" -> Verdict(is_null = FALSE)
      [] filter.filter_type = "IS_NULL" -> Verdict(is_null = TRUE)
      [] OTHER -> FilterError

\* the filters evaluated: trees of at most n nodes over the given leaves
RECURSIVE NodeCount(_), CountFrom(_, _)
CountFrom(child_filters, i) ==
    IF i > Len(child_filters) THEN 0
    ELSE NodeCount(child_filters[i]) + CountFrom(child_filters, i + 1)
NodeCount(filter) == 1 + CountFrom(filter.child_filters, 1)

RECURSIVE Trees(_, _), Forests(_, _)
Forests(n, leaves) ==
    {<<>>} \cup
    UNION {{<<t>> \o f : f \in Forests(n - NodeCount(t), leaves)} :
              t \in Trees(n, leaves)}
Trees(n, leaves) ==
    IF n <= 0 THEN {}
    ELSE leaves \cup {ConjunctionAndFilter(f) : f \in Forests(n - 1, leaves)}

FilterOids ==
    {"BOOLOID", "CHAROID", "INT2OID", "INT4OID", "INT8OID", "FLOAT4OID",
     "FLOAT8OID", "DATEOID", "TIMESTAMPOID", "TEXTOID"}

\* the constants compared with, lowest first: 1 and 10 in the column's
\* columnar type (0 and 1 for boolean), and -1 for the signed integers
FilterConstants(type_oid) ==
    CASE type_oid = "BOOLOID" -> <<ZeroDatum, <<1, 0, 0, 0>>>>
      [] type_oid = "FLOAT4OID" -> <<<<0, 16256, 0, 0>>, <<0, 16672, 0, 0>>>>
      [] type_oid = "FLOAT8OID" -> <<<<0, 0, 0, 16368>>, <<0, 0, 0, 16420>>>>
      [] type_oid \in {"CHAROID", "INT2OID", "INT4OID", "INT8OID"} ->
            <<<<1, 0, 0, 0>>, <<10, 0, 0, 0>>, MinusOne>>
      [] OTHER -> <<<<1, 0, 0, 0>>, <<10, 0, 0, 0>>>>

\* the row-store values filtered: -1, 0, 5 and 15 of the integers; the days
\* and microseconds that are 5, 15 and 10957 days in the columnar epoch and
\* one whose shift wraps; 0, 1, 2 and -1 of the floating-point types
FilterDatums(type_oid) ==
    CASE type_oid = "BOOLOID" -> {ZeroDatum, <<1, 0, 0, 0>>}
      [] type_oid \in {"CHAROID", "INT2OID", "INT4OID", "INT8OID"} ->
            {DatumOfInt32(v) : v \in {-1, 0, 5, 15}}
      [] type_oid = "DATEOID" ->
            {DatumOfInt32(v) : v \in {-10952, -10942, 0, 2147483647}}
      [] type_oid = "TIMESTAMPOID" ->
            {WSub(<<5, 0, 0, 0>>, QUACK_DUCK_TIMESTAMP_OFFSET),
             WSub(<<15, 0, 0, 0>>, QUACK_DUCK_TIMESTAMP_OFFSET),
             ZeroDatum, Int64Max}
      [] type_oid = "FLOAT4OID" ->
            {ZeroDatum, <<0, 16256, 0, 0>>, <<0, 16384, 0, 0>>}
      [] type_oid = "FLOAT8OID" ->
            {ZeroDatum, <<0, 0, 0, 16368>>, <<0, 0, 0, 16384>>,
             <<0, 0, 0, 49136>>}
      [] OTHER -> {TextAddr1}

GreaterThanLow(type_oid) ==
    ConstantFilter("COMPARE_GREATERTHAN", FilterConstants(type_oid)[1])
LessThanHigh(type_oid) ==
    ConstantFilter("COMPARE_LESSTHAN", FilterConstants(type_oid)[2])

Filters(type_oid) ==
    Trees(MaxNodes, {NullFilter("IS_NULL"), NullFilter("IS_NOT_NULL"),
                     GreaterThanLow(type_oid), LessThanHigh(type_oid)})
    \cup {ConstantFilter(op, FilterConstants(type_oid)[i]) :
             op \in ComparisonTypes, i \in DOMAIN FilterConstants(type_oid)}

InitFilter ==
    /\ ReaderUnused
    /\ conv = Unused /\ dec = Unused
    /\ \E type_oid \in FilterOids : \E filter \in Filters(type_oid) :
       \E is_null \in BOOLEAN :
       \E value \in IF is_null THEN {ZeroDatum} ELSE FilterDatums(type_oid) :
          filt = [pc |-> "filter", filter |-> filter, value |-> value,
                  is_null |-> is_null, type_oid |-> type_oid,
                  result |-> Verdict(FALSE)]

\* the scan applies the column's filter to the value of a tuple
ApplyFilter ==
    /\ filt.pc = "filter"
    /\ filt' = [filt EXCEPT !.pc = "done",
                            !.result = ApplyValueFilter(filt.filter, filt.value,
                                                        filt.is_null, filt.type_oid)]
    /\ UNCHANGED <<readerVars, conv, dec>>

NextFilter == ApplyFilter

SpecFilter == InitFilter /\ [][NextFilter]_vars

\* the verdict of child i of the filter on the same value
ChildVerdict(i) ==
    ApplyValueFilter(filt.filter.child_filters[i], filt.value, filt.is_null,
                     filt.type_oid)

Children == DOMAIN filt.filter.child_filters

\* C7: a conjunction is true iff every child is true on the same value,
\* null flag and type (a child that raises an error ends the evaluation with
\* that error); IS NULL gives is_null and IS NOT NULL its negation;
\* (v > 1 AND v < 10) is true of 5 and false of 15.
C7_ConjunctionIffAllChildren ==
    filt.pc = "done" =>
        /\ filt.filter.filter_type = "CONJUNCTION_AND" =>
              /\ filt.result.err = (\E i \in Children : ChildVerdict(i).err)
              /\ ~filt.result.err =>
                    filt.result.val = (\A i \in Children : ChildVerdict(i).val)
        /\ filt.filter.filter_type = "IS_NULL" =>
              filt.result = Verdict(filt.is_null)
        /\ filt.filter.filter_type = "IS_NOT_NULL" =>
              filt.result = Verdict(~filt.is_null)
        /\ (/\ filt.filter = ConjunctionAndFilter(<<GreaterThanLow("INT4OID"),
                                                    LessThanHigh("INT4OID")>>)
            /\ filt.type_oid = "INT4OID") =>
              /\ filt.value = DatumOfInt32(5) => filt.result = Verdict(TRUE)
              /\ filt.value = DatumOfInt32(15) => filt.result = Verdict(FALSE)

\* a conjunction whose first child is a true conjunction and whose last
\* child is false was evaluated
C7_Witness ==
    /\ filt.pc = "done"
    /\ filt.filter.filter_type = "CONJUNCTION_AND"
    /\ Len(filt.filter.child_filters) = 2
    /\ filt.filter.child_filters[1].filter_type = "CONJUNCTION_AND"
    /\ filt.filter.child_filters[1].child_filters # <<>>
    /\ ChildVerdict(1) = Verdict(TRUE)
    /\ ChildVerdict(2) = Verdict(FALSE)
    /\ filt.result = Verdict(FALSE)

\* the number a cell of the vector stands for in its physical type
NumberOfCell(type, cell) ==
    CASE type.id = "BOOLEAN" -> UnsignedNumber(<<IF cell THEN 1 ELSE 0>>)
      [] type.id \in {"TINYINT", "SMALLINT", "INTEGER", "DATE"} ->
            SignedNumber(Int32Word(cell))
      [] type.id \in {"BIGINT", "TIMESTAMP"} -> SignedNumber(cell)
      [] type.id = "DOUBLE" -> Float8Value(cell.bits)

\* the number the constant of a filter on a column of the type stands for
NumberOfConstant(type, constant) ==
    CASE type.id = "BOOLEAN" -> UnsignedNumber(<<IF constant[1] % 256 # 0 THEN 1 ELSE 0>>)
      [] type.id = "TINYINT" -> SignedNumber(Int32Word(DatumGetChar(constant)))
      [] type.id = "SMALLINT" -> SignedNumber(WTrunc(constant, 1))
      [] type.id \in {"INTEGER", "DATE"} -> SignedNumber(WTrunc(constant, 2))
      [] type.id \in {"BIGINT", "TIMESTAMP"} -> SignedNumber(constant)
      [] type.id = "DOUBLE" -> Float8Value(constant)

\* the types both the filter evaluator and the type mapping table support
ComparedOids ==
    {"BOOLOID", "CHAROID", "INT2OID", "INT4OID", "INT8OID", "FLOAT8OID",
     "DATEOID", "TIMESTAMPOID"}

ColumnType(type_oid) == ConvertPostgresToDuckColumnType(type_oid, -1).type

\* C8: the verdict of a comparison on a non-null row-store value is the
\* operator applied to rowToColumn(value) and the constant in the columnar
\* physical type of the column.
C8_ComparisonAgreesWithConverted ==
    (/\ filt.pc = "done"
     /\ filt.filter.filter_type = "CONSTANT_COMPARISON"
     /\ filt.type_oid \in ComparedOids
     /\ ~filt.is_null) =>
        filt.result =
            Verdict(Operation(filt.filter.comparison_type,
                NumberOfCell(ColumnType(filt.type_oid),
                    ConvertPostgresToDuckValue(filt.value,
                        ColumnType(filt.type_oid), TextMemory).cell),
                NumberOfConstant(ColumnType(filt.type_oid), filt.filter.constant)))

\* the agreement for the types other than char and float8
ComparisonAgreesExceptCharAndFloat8 ==
    filt.type_oid \in {"CHAROID", "FLOAT8OID"} \/ C8_ComparisonAgreesWithConverted

=============================================================================
